---- MODULE Spec2Model ----
(***************************************************************************)
(* Model of the assistant bot of task_1.py: the field validators, the      *)
(* contact Record, the AddressBook, the birthday engine                    *)
(* (get_upcoming_birthdays) and the command loop (main).                   *)
(*                                                                         *)
(* A Python str is a sequence of characters; a character is a TLA+ string. *)
(* Two non-ASCII characters are named by their code point:                 *)
(*   "U+00B2"  SUPERSCRIPT TWO          (str.isdigit() is True)            *)
(*   "U+0663"  ARABIC-INDIC DIGIT THREE (str.isdigit() is True)            *)
(***************************************************************************)
EXTENDS Integers, Sequences, FiniteSets, TLC

VARIABLES
    book,       \* AddressBook.data: the records, in insertion order
    running,    \* main(): TRUE while the while-loop is running
    crashed,    \* main(): TRUE once an exception has left main()
    out,        \* what the last loop iteration (or method call) printed / raised
    last,       \* the last step: the operation, its arguments and its outcome
    today,      \* get_upcoming_birthdays: date.today() of the last call
    upcoming,   \* get_upcoming_birthdays: the list returned by the last call
    occ,        \* get_upcoming_birthdays: birthday_this_year of each record with a birthday
    value,      \* Phone.__init__: the string handed to the constructor
    built       \* Phone.__init__: the outcome of the construction

vars == <<book, running, crashed, out, last, today, upcoming, occ, value, built>>

----------------------------------------------------------------------------
(* Characters and strings *)

AsciiDigits == {"0", "1", "2", "3", "4", "5", "6", "7", "8", "9"}

DigitValue(c) ==
    CASE c = "0" -> 0 [] c = "1" -> 1 [] c = "2" -> 2 [] c = "3" -> 3
      [] c = "4" -> 4 [] c = "5" -> 5 [] c = "6" -> 6 [] c = "7" -> 7
      [] c = "8" -> 8 [] c = "9" -> 9

DigitChar(n) ==
    CASE n = 0 -> "0" [] n = 1 -> "1" [] n = 2 -> "2" [] n = 3 -> "3"
      [] n = 4 -> "4" [] n = 5 -> "5" [] n = 6 -> "6" [] n = 7 -> "7"
      [] n = 8 -> "8" [] n = 9 -> "9"

\* The characters c for which Python's c.isdigit() is True, among the
\* characters the model uses.
UnicodeDigits == AsciiDigits \cup {"U+00B2", "U+0663"}

\* str.isdigit(): every character is a digit and there is at least one.
IsDigit(s) == Len(s) > 0 /\ \A i \in 1..Len(s) : s[i] \in UnicodeDigits

PHONE_LENGTH == 10

NoExc == [type |-> "None", text |-> "", arg |-> <<>>]

ValueError(text, arg) == [type |-> "ValueError", text |-> text, arg |-> arg]

KeyError(text, arg) == [type |-> "KeyError", text |-> text, arg |-> arg]

\* Phone.__init__: the Phone built from v, or the ValueError raised.
Phone(v) ==
    IF ~IsDigit(v) \/ Len(v) # PHONE_LENGTH
    THEN [ok |-> FALSE, value |-> <<>>,
          exc |-> ValueError("Phone number must be a 10-digit number.", <<>>)]
    ELSE [ok |-> TRUE, value |-> v, exc |-> NoExc]

----------------------------------------------------------------------------
(* Calendar: datetime.date *)

Date(y, m, d) == [year |-> y, month |-> m, day |-> d]

IsLeap(y) == y % 4 = 0 /\ (y % 100 # 0 \/ y % 400 = 0)

DaysInMonth(y, m) ==
    IF m = 2 THEN (IF IsLeap(y) THEN 29 ELSE 28)
    ELSE IF m \in {4, 6, 9, 11} THEN 30 ELSE 31

\* date(y, m, d) raises ValueError unless this holds.
ValidDate(y, m, d) ==
    /\ y \in 1..9999
    /\ m \in 1..12
    /\ d \in 1..DaysInMonth(y, m)

DaysBeforeYear(y) ==
    (y - 1) * 365 + ((y - 1) \div 4) - ((y - 1) \div 100) + ((y - 1) \div 400)

\* the days of a year that is no leap year before the first of each month
DAYS_BEFORE_MONTH == <<0, 31, 59, 90, 120, 151, 181, 212, 243, 273, 304, 334>>

DaysBeforeMonth(y, m) ==
    DAYS_BEFORE_MONTH[m] + (IF m > 2 /\ IsLeap(y) THEN 1 ELSE 0)

\* date.toordinal(): 1 for 0001-01-01.
ToOrdinal(dt) == DaysBeforeYear(dt.year) + DaysBeforeMonth(dt.year, dt.month) + dt.day

\* date.fromordinal(n), for n >= 1.
FromOrdinal(n) ==
    LET n0   == n - 1
        n400 == n0 \div 146097
        r400 == n0 % 146097
        n100 == r400 \div 36524
        r100 == r400 % 36524
        n4   == r100 \div 1461
        r4   == r100 % 1461
        n1   == r4 \div 365
        r1   == r4 % 365
        y    == n400 * 400 + 1 + n100 * 100 + n4 * 4 + n1
    IN  IF n1 = 4 \/ n100 = 4
        THEN Date(y - 1, 12, 31)
        ELSE LET guess == (r1 + 50) \div 32
                 m     == IF DaysBeforeMonth(y, guess) > r1 THEN guess - 1 ELSE guess
             IN  Date(y, m, r1 - DaysBeforeMonth(y, m) + 1)

\* date.weekday(): Monday is 0, Sunday is 6.
Weekday(dt) == (ToOrdinal(dt) + 6) % 7

\* date + timedelta(days=k)
AddDays(dt, k) == FromOrdinal(ToOrdinal(dt) + k)

\* (a - b).days
DaysBetween(a, b) == ToOrdinal(a) - ToOrdinal(b)

\* a < b on dates
DateLess(a, b) == ToOrdinal(a) < ToOrdinal(b)

----------------------------------------------------------------------------
(* Birthday: datetime.strptime(value, "%d-%m-%Y").date() *)

DATE_FORMAT == <<"%", "d", "-", "%", "m", "-", "%", "Y">>

\* The characters the regular expression \d matches (Unicode decimal digits),
\* among the characters the model uses, and the number int() reads from them.
DecimalDigits == AsciiDigits \cup {"U+0663"}

DecimalValue(c) == IF c = "U+0663" THEN 3 ELSE DigitValue(c)

NonZeroAscii == AsciiDigits \ {"0"}

\* %d : 3[0-1] | [1-2]\d | 0[1-9] | [1-9] | " "[1-9]
MatchesDay(f) ==
    \/ Len(f) = 2 /\ f[1] = "3" /\ f[2] \in {"0", "1"}
    \/ Len(f) = 2 /\ f[1] \in {"1", "2"} /\ f[2] \in DecimalDigits
    \/ Len(f) = 2 /\ f[1] \in {"0", " "} /\ f[2] \in NonZeroAscii
    \/ Len(f) = 1 /\ f[1] \in NonZeroAscii

\* %m : 1[0-2] | 0[1-9] | [1-9]
MatchesMonth(f) ==
    \/ Len(f) = 2 /\ f[1] = "1" /\ f[2] \in {"0", "1", "2"}
    \/ Len(f) = 2 /\ f[1] = "0" /\ f[2] \in NonZeroAscii
    \/ Len(f) = 1 /\ f[1] \in NonZeroAscii

\* %Y : \d\d\d\d
MatchesYear(f) == Len(f) = 4 /\ \A i \in 1..4 : f[i] \in DecimalDigits

RECURSIVE IntOf(_)
IntOf(f) ==
    IF Len(f) = 0 THEN 0
    ELSE IF f[Len(f)] = " " THEN 0
    ELSE 10 * IntOf(SubSeq(f, 1, Len(f) - 1)) + DecimalValue(f[Len(f)])

\* The fields of s between the occurrences of the character sep.
RECURSIVE SplitOn(_, _)
SplitOn(s, sep) ==
    IF \A i \in 1..Len(s) : s[i] # sep
    THEN <<s>>
    ELSE LET k == CHOOSE i \in 1..Len(s) :
                      s[i] = sep /\ \A j \in 1..(i - 1) : s[j] # sep
         IN  <<SubSeq(s, 1, k - 1)>> \o SplitOn(SubSeq(s, k + 1, Len(s)), sep)

\* datetime.strptime(value, DATE_FORMAT).date(): the date, or ok = FALSE for
\* the ValueError of a string that does not match or of an impossible date.
Strptime(v) ==
    LET f == SplitOn(v, "-")
    IN  IF /\ Len(f) = 3
           /\ MatchesDay(f[1]) /\ MatchesMonth(f[2]) /\ MatchesYear(f[3])
           /\ ValidDate(IntOf(f[3]), IntOf(f[2]), IntOf(f[1]))
        THEN [ok |-> TRUE, value |-> Date(IntOf(f[3]), IntOf(f[2]), IntOf(f[1]))]
        ELSE [ok |-> FALSE, value |-> Date(0, 0, 0)]

\* record.birthday = None
NoBirthday == Date(0, 0, 0)

\* Birthday.__init__
Birthday(v) ==
    LET p == Strptime(v)
    IN  IF p.ok
        THEN [ok |-> TRUE, value |-> p.value, exc |-> NoExc]
        ELSE IF \A i \in 1..Len(v) : v[i] # "-"
        THEN [ok |-> FALSE, value |-> NoBirthday,
              exc |-> ValueError("Invalid date format. Use d-m-Y.", <<>>)]
        ELSE [ok |-> FALSE, value |-> NoBirthday,
              exc |-> ValueError("Invalid date: does not exist.", v)]

\* date.strftime(DATE_FORMAT), for a four-digit year
Strftime(dt) ==
    << DigitChar(dt.day \div 10), DigitChar(dt.day % 10), "-",
       DigitChar(dt.month \div 10), DigitChar(dt.month % 10), "-",
       DigitChar(dt.year \div 1000), DigitChar((dt.year \div 100) % 10),
       DigitChar((dt.year \div 10) % 10), DigitChar(dt.year % 10) >>

----------------------------------------------------------------------------
(* Record *)

\* Record.__init__
Record(name) == [name |-> name, phones |-> <<>>, birthday |-> NoBirthday]

\* Record.find_phone: the index of the first phone equal to p, 0 for None.
FindPhone(phones, p) ==
    IF \E i \in 1..Len(phones) : phones[i] = p
    THEN CHOOSE i \in 1..Len(phones) :
             phones[i] = p /\ \A j \in 1..(i - 1) : phones[j] # p
    ELSE 0

RemoveAt(s, i) == SubSeq(s, 1, i - 1) \o SubSeq(s, i + 1, Len(s))

AddPhoneInFront(phones, p) ==
    IF FindPhone(phones, p) # 0
    THEN [phones |-> phones, exc |-> ValueError("Phone already exists", <<>>)]
    ELSE IF ~Phone(p).ok
    THEN [phones |-> phones, exc |-> Phone(p).exc]
    ELSE [phones |-> <<Phone(p).value>> \o phones, exc |-> NoExc]

\* Record.add_phone: the phone list afterwards and the exception raised.
AddPhone(phones, p) ==
    IF FindPhone(phones, p) # 0
    THEN [phones |-> phones, exc |-> ValueError("Phone already exists", <<>>)]
    ELSE IF ~Phone(p).ok
    THEN [phones |-> phones, exc |-> Phone(p).exc]
    ELSE [phones |-> Append(phones, Phone(p).value), exc |-> NoExc]

\* Record.remove_phone
RemovePhone(phones, p) ==
    IF FindPhone(phones, p) = 0
    THEN [phones |-> phones,
          exc |-> ValueError("Phone not found in this contact.", p)]
    ELSE [phones |-> RemoveAt(phones, FindPhone(phones, p)), exc |-> NoExc]

EditPhoneRemoveOnly(phones, old, new) ==
    IF FindPhone(phones, old) = 0
    THEN [phones |-> phones,
          exc |-> ValueError("Phone not found in this contact.", old)]
    ELSE IF ~Phone(new).ok
    THEN [phones |-> phones, exc |-> Phone(new).exc]
    ELSE [phones |-> RemovePhone(phones, old).phones, exc |-> NoExc]

\* Record.edit_phone: what remove_phone has done stays done when add_phone
\* raises.
EditPhone(phones, old, new) ==
    IF FindPhone(phones, old) = 0
    THEN [phones |-> phones,
          exc |-> ValueError("Phone not found in this contact.", old)]
    ELSE IF ~Phone(new).ok
    THEN [phones |-> phones, exc |-> Phone(new).exc]
    ELSE LET removed == RemovePhone(phones, old)
         IN  IF removed.exc # NoExc
             THEN removed
             ELSE AddPhone(removed.phones, new)

\* Record.add_birthday
AddBirthdayToRecord(rec, v) ==
    IF Birthday(v).ok
    THEN [rec |-> [rec EXCEPT !.birthday = Birthday(v).value], exc |-> NoExc]
    ELSE [rec |-> rec, exc |-> Birthday(v).exc]

----------------------------------------------------------------------------
(* AddressBook: data is a dict, kept here as the sequence of its values in *)
(* insertion order; the key of a value is the name it was stored under.    *)

Entry(key, rec) == [key |-> key, rec |-> rec]

\* AddressBook.find: the index of the entry stored under name, 0 for None.
Find(bk, name) ==
    IF \E i \in 1..Len(bk) : bk[i].key = name
    THEN CHOOSE i \in 1..Len(bk) : bk[i].key = name
    ELSE 0

\* AddressBook.add_record: a new key goes last, an old key keeps its place.
AddRecord(bk, rec) ==
    IF Find(bk, rec.name) # 0
    THEN [bk EXCEPT ![Find(bk, rec.name)] = Entry(rec.name, rec)]
    ELSE Append(bk, Entry(rec.name, rec))

----------------------------------------------------------------------------
(* get_upcoming_birthdays *)

WEEKEND_DAYS == {5, 6}

\* date.replace(year=y): the date, or ok = FALSE for the ValueError.
ReplaceYear(dt, y) ==
    IF ValidDate(y, dt.month, dt.day)
    THEN [ok |-> TRUE, value |-> Date(y, dt.month, dt.day)]
    ELSE [ok |-> FALSE, value |-> dt]

\* lines 260-264: the birthday in today's year
BirthdayThisYear(bday, td) ==
    IF ReplaceYear(bday, td.year).ok
    THEN ReplaceYear(bday, td.year).value
    ELSE Date(td.year, 2, 28)

\* lines 266-272: a birthday that has passed moves to next year; the year is
\* replaced in birthday_this_year, not in the birthday of the record.
RollForward(bty, td) ==
    IF DateLess(bty, td)
    THEN IF ReplaceYear(bty, td.year + 1).ok
         THEN ReplaceYear(bty, td.year + 1).value
         ELSE Date(td.year + 1, 2, 28)
    ELSE bty

\* birthday_this_year when line 274 is reached
NextBirthday(bday, td) == RollForward(BirthdayThisYear(bday, td), td)

InWindowExclusive(days_diff) == 0 <= days_diff /\ days_diff < 7

\* line 276
InWindow(days_diff) == 0 <= days_diff /\ days_diff <= 7

CongratulationDateSaturdayOnly(bty) ==
    IF Weekday(bty) = 5 THEN AddDays(bty, 7 - Weekday(bty)) ELSE bty

\* lines 277-282
CongratulationDate(bty) ==
    IF Weekday(bty) \in WEEKEND_DAYS
    THEN AddDays(bty, 7 - Weekday(bty))
    ELSE bty

\* lines 256-291: the list upcoming after the loop over book.data.values()
RECURSIVE GetUpcomingBirthdays(_, _)
GetUpcomingBirthdays(bk, td) ==
    IF Len(bk) = 0 THEN <<>>
    ELSE LET record == bk[Len(bk)].rec
             before == GetUpcomingBirthdays(SubSeq(bk, 1, Len(bk) - 1), td)
         IN  IF record.birthday = NoBirthday
             THEN before
             ELSE LET birthday_this_year == NextBirthday(record.birthday, td)
                      days_diff == DaysBetween(birthday_this_year, td)
                  IN  IF InWindow(days_diff)
                      THEN Append(before,
                               [name |-> record.name,
                                date |-> Strftime(CongratulationDate(birthday_this_year))])
                      ELSE before

\* birthday_this_year at line 274, for each record of the book (NoBirthday
\* for a record the loop skips): first as lines 260-264 set it, final as line
\* 274 reads it
BirthdaysThisYear(bk, td) ==
    [i \in 1..Len(bk) |->
        IF bk[i].rec.birthday = NoBirthday
        THEN [first |-> NoBirthday, final |-> NoBirthday]
        ELSE [first |-> BirthdayThisYear(bk[i].rec.birthday, td),
              final |-> NextBirthday(bk[i].rec.birthday, td)]]

----------------------------------------------------------------------------
(* The command handlers.  A handler yields the book afterwards, the string *)
(* it returns and the exception it raises (NoExc when it returns).         *)

Msg(text, args) == [text |-> text, args |-> args]

Returned(bk, text, args) == [book |-> bk, ret |-> Msg(text, args), exc |-> NoExc]

Raised(bk, exc) == [book |-> bk, ret |-> Msg("", <<>>), exc |-> exc]

SetPhones(bk, i, phones) == [bk EXCEPT ![i].rec.phones = phones]

AddContactInsertFirst(args, bk) ==
    IF Len(args) < 2
    THEN Raised(bk, ValueError("Usage: add [name] [phone]", <<>>))
    ELSE LET name  == args[1]
             phone == args[2]
             isNew == Find(bk, name) = 0
             bk1   == IF isNew THEN AddRecord(bk, Record(name)) ELSE bk
             i     == Find(bk1, name)
             added == AddPhone(bk1[i].rec.phones, phone)
         IN  IF added.exc # NoExc
             THEN Raised(bk1, added.exc)
             ELSE Returned(SetPhones(bk1, i, added.phones),
                           IF isNew THEN "Contact added." ELSE "Contact updated.",
                           <<>>)

\* add_contact, lines 141-162
AddContact(args, bk) ==
    IF Len(args) < 2
    THEN Raised(bk, ValueError("Usage: add [name] [phone]", <<>>))
    ELSE LET name  == args[1]
             phone == args[2]
             isNew == Find(bk, name) = 0
         IN  IF isNew /\ ~Phone(phone).ok
             THEN Raised(bk, Phone(phone).exc)
             ELSE LET bk1   == IF isNew THEN AddRecord(bk, Record(name)) ELSE bk
                      i     == Find(bk1, name)
                      added == AddPhone(bk1[i].rec.phones, phone)
                  IN  IF added.exc # NoExc
                      THEN Raised(SetPhones(bk1, i, added.phones), added.exc)
                      ELSE Returned(SetPhones(bk1, i, added.phones),
                                    IF isNew THEN "Contact added."
                                             ELSE "Contact updated.",
                                    <<>>)

\* change_contact_phone, lines 166-182
ChangeContactPhone(args, bk) ==
    IF Len(args) < 3
    THEN Raised(bk, ValueError("Usage: change [name] [old_phone] [new_phone]", <<>>))
    ELSE LET name == args[1]
             i    == Find(bk, name)
         IN  IF i = 0
             THEN Raised(bk, KeyError("Contact not found.", name))
             ELSE LET edited == EditPhone(bk[i].rec.phones, args[2], args[3])
                  IN  IF edited.exc # NoExc
                      THEN Raised(SetPhones(bk, i, edited.phones), edited.exc)
                      ELSE Returned(SetPhones(bk, i, edited.phones),
                                    "Contact phone number updated.", <<>>)

\* show_phone, lines 186-201
ShowPhone(args, bk) ==
    IF Len(args) < 1
    THEN Raised(bk, ValueError("Usage: phone [name]", <<>>))
    ELSE LET i == Find(bk, args[1])
         IN  IF i = 0
             THEN Raised(bk, KeyError("Contact not found.", args[1]))
             ELSE Returned(bk, "Phones: .", bk[i].rec.phones)

\* add_birthday, lines 205-227
AddBirthday(args, bk) ==
    IF Len(args) < 2
    THEN Raised(bk, ValueError("Usage: add-birthday [name] [birthday date]", <<>>))
    ELSE LET i == Find(bk, args[1])
         IN  IF i = 0
             THEN Raised(bk, KeyError("Contact not found.", args[1]))
             ELSE LET set == AddBirthdayToRecord(bk[i].rec, args[2])
                  IN  IF set.exc # NoExc
                      THEN Raised(bk, set.exc)
                      ELSE Returned([bk EXCEPT ![i].rec = set.rec],
                                    IF bk[i].rec.birthday # NoBirthday
                                    THEN "Contact's birthday updated"
                                    ELSE "Contact's birthday added",
                                    <<>>)

\* show_birthday, lines 231-246; str(record.birthday) is str() of the date,
\* YYYY-MM-DD
ShowBirthday(args, bk) ==
    IF Len(args) < 1
    THEN Raised(bk, ValueError("Usage: show-birthday [name]", <<>>))
    ELSE LET i == Find(bk, args[1])
         IN  IF i = 0
             THEN Raised(bk, KeyError("Contact not found.", args[1]))
             ELSE IF bk[i].rec.birthday = NoBirthday
             THEN Returned(bk, "Birthday not set.", <<>>)
             ELSE LET f == Strftime(bk[i].rec.birthday)
                  IN  Returned(bk, "",
                          <<SubSeq(f, 7, 10) \o <<"-">> \o SubSeq(f, 4, 5)
                              \o <<"-">> \o SubSeq(f, 1, 2)>>)

\* input_error: the string the decorated handler returns
InputError(r) ==
    IF r.exc = NoExc THEN r.ret
    ELSE IF r.exc.type \in {"ValueError", "KeyError"}
    THEN Msg(r.exc.text, IF r.exc.arg = <<>> THEN <<>> ELSE <<r.exc.arg>>)
    ELSE Msg("An unexpected error occurred: ", <<>>)

RECURSIVE FlattenUpcoming(_)
FlattenUpcoming(items) ==
    IF Len(items) = 0 THEN <<>>
    ELSE <<items[1].name, items[1].date>> \o FlattenUpcoming(Tail(items))

\* format_birthdays, lines 294-312
FormatBirthdays(items) ==
    IF Len(items) = 0
    THEN Msg("No upcoming birthdays in the next 7 days.", <<>>)
    ELSE Msg("Name | Congratulation Date", FlattenUpcoming(items))

NoPhones == <<"N", "o", " ", "p", "h", "o", "n", "e", "s">>

\* lines 329-337: the table rows of one record, as name and phone cells
RowsOf(rec) ==
    <<rec.name, IF Len(rec.phones) > 0 THEN rec.phones[1] ELSE NoPhones>>
    \o (IF Len(rec.phones) > 1
        THEN [k \in 1..(2 * (Len(rec.phones) - 1)) |->
                 IF k % 2 = 1 THEN <<>> ELSE rec.phones[(k \div 2) + 1]]
        ELSE <<>>)

RECURSIVE AllRows(_)
AllRows(bk) == IF Len(bk) = 0 THEN <<>> ELSE RowsOf(bk[1].rec) \o AllRows(Tail(bk))

\* show_all, lines 315-339
ShowAll(bk) ==
    IF Len(bk) = 0
    THEN Msg("Address book is empty.", <<>>)
    ELSE Msg("Name | Phone", AllRows(bk))

----------------------------------------------------------------------------
(* main: reading and parsing a line *)

UpperCase == <<"A", "B", "C", "D", "E", "F", "G", "H", "I", "J", "K", "L", "M",
               "N", "O", "P", "Q", "R", "S", "T", "U", "V", "W", "X", "Y", "Z">>

LowerCase == <<"a", "b", "c", "d", "e", "f", "g", "h", "i", "j", "k", "l", "m",
               "n", "o", "p", "q", "r", "s", "t", "u", "v", "w", "x", "y", "z">>

\* str.lower()
Lower(w) ==
    [i \in 1..Len(w) |->
        IF \E k \in 1..26 : UpperCase[k] = w[i]
        THEN LowerCase[CHOOSE k \in 1..26 : UpperCase[k] = w[i]]
        ELSE w[i]]

NonEmpty(w) == Len(w) > 0

\* parse_input: user_input.strip().split(), the blank being the only
\* whitespace character of the model
ParseInput(line) == SelectSeq(SplitOn(line, " "), NonEmpty)

\* line 350: not user_input.strip()
IsBlank(line) == \A i \in 1..Len(line) : line[i] = " "

\* line 357
CommandOf(line) == Lower(ParseInput(line)[1])

ArgsOf(line) == Tail(ParseInput(line))

W_close == <<"c", "l", "o", "s", "e">>

W_exit == <<"e", "x", "i", "t">>

W_hello == <<"h", "e", "l", "l", "o">>

W_add == <<"a", "d", "d">>

W_change == <<"c", "h", "a", "n", "g", "e">>

W_phone == <<"p", "h", "o", "n", "e">>

W_all == <<"a", "l", "l">>

W_add_birthday == <<"a", "d", "d", "-", "b", "i", "r", "t", "h", "d", "a", "y">>

W_show_birthday == <<"s", "h", "o", "w", "-", "b", "i", "r", "t", "h", "d", "a", "y">>

W_birthdays == <<"b", "i", "r", "t", "h", "d", "a", "y", "s">>

KnownCommands ==
    {W_close, W_exit, W_hello, W_add, W_change, W_phone, W_all,
     W_add_birthday, W_show_birthday, W_birthdays}

GoodBye == Msg("Good bye!", <<>>)

GoodByeAfterNewline == Msg("\nGood bye!", <<>>)

NoDate == Date(0, 0, 0)

----------------------------------------------------------------------------
(* The inputs of the model *)

Rep(c, n) == [i \in 1..n |-> c]

RECURSIVE Join(_)
Join(tokens) ==
    IF Len(tokens) = 0 THEN <<>>
    ELSE IF Len(tokens) = 1 THEN tokens[1]
    ELSE tokens[1] \o <<" ">> \o Join(Tail(tokens))

Ann == <<"a", "n", "n">>

Bob == <<"b", "o", "b">>

Names == {Ann, Bob}

P1 == Rep("1", PHONE_LENGTH)

P2 == Rep("2", PHONE_LENGTH)

TooShort == Rep("1", PHONE_LENGTH - 1)

TooLong == Rep("1", PHONE_LENGTH + 1)

WithLetter == Rep("1", PHONE_LENGTH - 1) \o <<"a">>

SuperscriptTwos == Rep("U+00B2", PHONE_LENGTH)

\* the phone arguments of the command loop
PhoneArgs == {P1, P2, TooShort, WithLetter}

\* the phone arguments of the calls on a Record
RecordPhoneArgs == {P1, P2, SuperscriptTwos, TooShort, TooLong, WithLetter, <<>>}

LeapDay == Strftime(Date(2024, 2, 29))

SecondOfMarch == Strftime(Date(1990, 3, 2))

NoSuchDay == Strftime(Date(2023, 2, 29))

Slashes == <<"2", "0", "2", "0", "/", "0", "1", "/", "0", "1">>

BirthdayArgs == {LeapDay, SecondOfMarch, NoSuchDay, Slashes}

\* date.today() in the command loop
LoopTodays == {Date(2024, 2, 24), Date(2023, 3, 1)}

W_help == <<"h", "e", "l", "p">>

Lines ==
    {<<>>, <<" ", " ">>}
    \cup {W_hello, W_all, W_birthdays, W_help, <<" ">> \o W_all \o <<" ">>}
    \cup {W_close, W_exit, <<"E", "X", "I", "T">>, <<"C", "l", "o", "s", "e">>,
          Join(<<W_exit, Ann>>)}
    \cup {W_add, <<"A", "d", "d">>, W_change, W_phone, W_add_birthday, W_show_birthday}
    \cup {Join(<<W_add, n>>) : n \in Names}
    \cup {Join(<<W_add, n, p>>) : n \in Names, p \in PhoneArgs}
    \cup {Join(<<W_add, Ann, P2, P1>>), W_add \o <<" ", " ">> \o Bob \o <<" ">> \o P1}
    \cup {Join(<<W_change, n, p>>) : n \in Names, p \in {P1}}
    \cup {Join(<<W_change, n, p, q>>) :
              n \in Names, p \in {P1, P2, TooShort}, q \in {P1, P2, WithLetter}}
    \cup {Join(<<W_phone, n>>) : n \in Names}
    \cup {Join(<<W_add_birthday, n>>) : n \in Names}
    \cup {Join(<<W_add_birthday, n, b>>) : n \in Names, b \in BirthdayArgs}
    \cup {Join(<<W_show_birthday, n>>) : n \in Names}

\* lines 350, 356 and 357 applied to a line that input() returns
Read(line) ==
    [line    |-> line,
     blank   |-> IsBlank(line),
     command |-> IF IsBlank(line) THEN <<>> ELSE CommandOf(line),
     args    |-> IF IsBlank(line) THEN <<>> ELSE ArgsOf(line)]

Inputs == {Read(line) : line \in Lines}

----------------------------------------------------------------------------
(* main, lines 342-379: one action per outcome of input() and per branch   *)
(* of the dispatch; an action is one iteration of the while-loop.          *)

Init ==
    /\ book = <<>>
    /\ running = TRUE
    /\ crashed = FALSE
    /\ out = <<Msg("Welcome to the assistant bot!", <<>>)>>
    /\ last = [op |-> "start", args |-> <<>>, ok |-> TRUE]
    /\ today = NoDate
    /\ upcoming = <<>>
    /\ occ = <<>>
    /\ value = <<>>
    /\ built = [ok |-> FALSE, value |-> <<>>, exc |-> NoExc]

NoEngine == today' = NoDate /\ upcoming' = <<>> /\ occ' = <<>>

\* the iteration goes on to the next input()
Iterate(op, args, ok, bk, printed) ==
    /\ book' = bk
    /\ out' = printed
    /\ last' = [op |-> op, args |-> args, ok |-> ok]
    /\ running' = TRUE
    /\ crashed' = FALSE
    /\ UNCHANGED <<value, built>>

\* the loop is left
Leave(op, printed, byException) ==
    /\ out' = printed
    /\ last' = [op |-> op, args |-> <<>>, ok |-> ~byException]
    /\ running' = FALSE
    /\ crashed' = byException
    /\ NoEngine
    /\ UNCHANGED <<book, value, built>>

\* a decorated handler was called and its string printed
Handled(op, args, r) ==
    Iterate(op, args, r.exc = NoExc, r.book, <<InputError(r)>>) /\ NoEngine

\* lines 349-351: a blank line, continue
ReadBlank ==
    /\ running
    /\ \E inp \in Inputs :
        /\ inp.blank
        /\ Iterate("blank", <<>>, TRUE, book, <<>>) /\ NoEngine

\* lines 352-354: KeyboardInterrupt during input()
ReadInterrupt ==
    /\ running
    /\ Leave("interrupt", <<GoodByeAfterNewline>>, FALSE)

\* line 349: input() raises EOFError at the end of the input; no handler
\* catches it and it leaves main()
ReadEOF ==
    /\ running
    /\ Leave("eof", <<>>, TRUE)

\* lines 359-361
CmdClose ==
    /\ running
    /\ \E inp \in Inputs :
        /\ ~inp.blank
        /\ inp.command \in {W_close, W_exit}
        /\ Leave("close", <<GoodBye>>, FALSE)

\* lines 362-363
CmdHello ==
    /\ running
    /\ \E inp \in Inputs :
        /\ ~inp.blank
        /\ inp.command = W_hello
        /\ Iterate("hello", inp.args, TRUE, book,
                   <<Msg("How can I help you?", <<>>)>>)
        /\ NoEngine

\* lines 364-365
CmdAdd ==
    /\ running
    /\ \E inp \in Inputs :
        /\ ~inp.blank
        /\ inp.command = W_add
        /\ Handled("add", inp.args, AddContact(inp.args, book))

\* lines 366-367
CmdChange ==
    /\ running
    /\ \E inp \in Inputs :
        /\ ~inp.blank
        /\ inp.command = W_change
        /\ Handled("change", inp.args, ChangeContactPhone(inp.args, book))

\* lines 368-369
CmdPhone ==
    /\ running
    /\ \E inp \in Inputs :
        /\ ~inp.blank
        /\ inp.command = W_phone
        /\ Handled("phone", inp.args, ShowPhone(inp.args, book))

\* lines 370-371
CmdAll ==
    /\ running
    /\ \E inp \in Inputs :
        /\ ~inp.blank
        /\ inp.command = W_all
        /\ Iterate("all", inp.args, TRUE, book, <<ShowAll(book)>>)
        /\ NoEngine

\* lines 372-373
CmdAddBirthday ==
    /\ running
    /\ \E inp \in Inputs :
        /\ ~inp.blank
        /\ inp.command = W_add_birthday
        /\ Handled("add-birthday", inp.args, AddBirthday(inp.args, book))

\* lines 374-375
CmdShowBirthday ==
    /\ running
    /\ \E inp \in Inputs :
        /\ ~inp.blank
        /\ inp.command = W_show_birthday
        /\ Handled("show-birthday", inp.args, ShowBirthday(inp.args, book))

\* lines 376-377
CmdBirthdays ==
    /\ running
    /\ \E inp \in Inputs, td \in LoopTodays :
        /\ ~inp.blank
        /\ inp.command = W_birthdays
        /\ today' = td
        /\ upcoming' = GetUpcomingBirthdays(book, td)
        /\ occ' = BirthdaysThisYear(book, td)
        /\ Iterate("birthdays", inp.args, TRUE, book,
                   <<FormatBirthdays(GetUpcomingBirthdays(book, td))>>)

\* lines 378-379
CmdInvalid ==
    /\ running
    /\ \E inp \in Inputs :
        /\ ~inp.blank
        /\ inp.command \notin KnownCommands
        /\ Iterate("invalid", inp.args, FALSE, book,
                   <<Msg("Invalid command.", <<>>)>>)
        /\ NoEngine

Next ==
    \/ ReadBlank
    \/ ReadInterrupt
    \/ ReadEOF
    \/ CmdClose
    \/ CmdHello
    \/ CmdAdd
    \/ CmdChange
    \/ CmdPhone
    \/ CmdAll
    \/ CmdAddBirthday
    \/ CmdShowBirthday
    \/ CmdBirthdays
    \/ CmdInvalid

Spec == Init /\ [][Next]_vars

----------------------------------------------------------------------------
(* Record: calls of add_phone, remove_phone and edit_phone on two records *)

IdleLoop == running = FALSE /\ crashed = FALSE

NotBuilt == [ok |-> FALSE, value |-> <<>>, exc |-> NoExc]

RecordInit ==
    /\ book = <<Entry(Ann, Record(Ann)), Entry(Bob, Record(Bob))>>
    /\ IdleLoop
    /\ out = <<>>
    /\ last = [op |-> "start", args |-> <<>>, ok |-> TRUE]
    /\ today = NoDate
    /\ upcoming = <<>>
    /\ occ = <<>>
    /\ value = <<>>
    /\ built = NotBuilt

\* the call on record i has ended with r
Called(op, args, i, r) ==
    /\ book' = SetPhones(book, i, r.phones)
    /\ out' = IF r.exc = NoExc THEN <<>> ELSE <<InputError(Raised(book, r.exc))>>
    /\ last' = [op |-> op, args |-> args, ok |-> r.exc = NoExc]
    /\ UNCHANGED <<running, crashed, today, upcoming, occ, value, built>>

CallAddPhone ==
    \E i \in 1..Len(book), p \in RecordPhoneArgs :
        Called("add_phone", <<book[i].key, p>>, i, AddPhone(book[i].rec.phones, p))

CallRemovePhone ==
    \E i \in 1..Len(book), p \in RecordPhoneArgs :
        Called("remove_phone", <<book[i].key, p>>, i,
               RemovePhone(book[i].rec.phones, p))

CallEditPhone ==
    \E i \in 1..Len(book), old \in RecordPhoneArgs, new \in RecordPhoneArgs :
        Called("edit_phone", <<book[i].key, old, new>>, i,
               EditPhone(book[i].rec.phones, old, new))

RecordNext == CallAddPhone \/ CallRemovePhone \/ CallEditPhone

RecordSpec == RecordInit /\ [][RecordNext]_vars

----------------------------------------------------------------------------
(* Phone.__init__ on every string of a bounded set *)

MaxPhoneLen == 11

StringsOver(alphabet) == UNION {[1..k -> alphabet] : k \in 0..MaxPhoneLen}

PhoneStrings ==
    StringsOver({"7", "a"}) \cup StringsOver({"7", "U+00B2"})
        \cup StringsOver({"7", "U+0663"})

PhoneInit ==
    /\ value \in PhoneStrings
    /\ built = NotBuilt
    /\ last = [op |-> "start", args |-> <<>>, ok |-> TRUE]
    /\ book = <<>>
    /\ IdleLoop
    /\ out = <<>>
    /\ today = NoDate
    /\ upcoming = <<>>
    /\ occ = <<>>

ConstructPhone ==
    /\ last.op = "start"
    /\ built' = Phone(value)
    /\ last' = [op |-> "Phone", args |-> <<>>, ok |-> Phone(value).ok]
    /\ out' = IF Phone(value).ok THEN <<>>
              ELSE <<InputError(Raised(book, Phone(value).exc))>>
    /\ UNCHANGED <<book, running, crashed, today, upcoming, occ, value>>

PhoneNext == ConstructPhone

PhoneSpec == PhoneInit /\ [][PhoneNext]_vars

----------------------------------------------------------------------------
(* get_upcoming_birthdays on every day of some years, for books whose      *)
(* birthdays lie around that day                                           *)

EngineYears == {2023, 2024, 2100}

EngineTodays ==
    {Date(y, m, d) : y \in EngineYears, m \in 1..12, d \in 1..31}
        \cap {dt \in [year : EngineYears, month : 1..12, day : 1..31] :
                 ValidDate(dt.year, dt.month, dt.day)}

DaysBehind == 1

DaysAhead == 8

\* the birthday of somebody born in the leap year 2000 on the month and day of dt
BornOn(dt) == Date(2000, dt.month, dt.day)

BirthdaysAround(td) ==
    {BornOn(AddDays(td, k)) : k \in (0 - DaysBehind)..DaysAhead}
        \cup {Date(2000, 2, 29), NoBirthday}

\* no birthday, one today, one 7 days out and one 8 days out
BirthdaysAtTheEdges(td) ==
    {NoBirthday, BornOn(td), BornOn(AddDays(td, 7)), BornOn(AddDays(td, 8))}

Contact(name, bday) ==
    Entry(name, [name |-> name, phones |-> <<P1>>, birthday |-> bday])

EngineBooks(td) ==
    {<<Contact(Ann, b)>> : b \in BirthdaysAround(td)}
        \cup {<<Contact(Bob, b), Contact(Ann, c)>> :
                 b \in BirthdaysAround(td), c \in BirthdaysAtTheEdges(td)}

EngineInit ==
    /\ today \in EngineTodays
    /\ book \in EngineBooks(today)
    /\ upcoming = <<>>
    /\ occ = <<>>
    /\ last = [op |-> "start", args |-> <<>>, ok |-> TRUE]
    /\ IdleLoop
    /\ out = <<>>
    /\ value = <<>>
    /\ built = NotBuilt

CallGetUpcomingBirthdays ==
    /\ last.op = "start"
    /\ upcoming' = GetUpcomingBirthdays(book, today)
    /\ occ' = BirthdaysThisYear(book, today)
    /\ last' = [op |-> "get_upcoming_birthdays", args |-> <<>>, ok |-> TRUE]
    /\ UNCHANGED <<book, running, crashed, out, today, value, built>>

EngineNext == CallGetUpcomingBirthdays

EngineSpec == EngineInit /\ [][EngineNext]_vars

----------------------------------------------------------------------------
(* The properties *)

\* a string of exactly ten ASCII decimal digits
TenAsciiDigits(s) == Len(s) = 10 /\ \A i \in 1..Len(s) : s[i] \in AsciiDigits

PhonesOf(bk, name) == bk[CHOOSE i \in 1..Len(bk) : bk[i].key = name].rec.phones

Known(bk, name) == \E i \in 1..Len(bk) : bk[i].key = name

Holds(phones, p) == \E k \in 1..Len(phones) : phones[k] = p

\* C1: whenever edit_phone fails, for whatever reason, the phone sequence of
\* the record (and of every record) is the same after the call as before it.
C1_EditPhoneAtomic ==
    [][(last'.op = "edit_phone" /\ ~last'.ok) => book' = book]_vars

\* C2: add with a name and a valid phone: for an unknown name the book gains,
\* at its end, a record keyed by the name whose phones are exactly [phone], and
\* "Contact added." is printed; for a known name that does not hold the phone
\* the phone is appended to the record's phones and "Contact updated." is
\* printed; every other record is unchanged.
C2_AddCommand ==
    [][(last'.op = "add" /\ Len(last'.args) >= 2 /\ TenAsciiDigits(last'.args[2])) =>
          LET name  == last'.args[1]
              phone == last'.args[2]
          IN  /\ ~Known(book, name) =>
                    /\ Len(book') = Len(book) + 1
                    /\ book'[Len(book')].key = name
                    /\ book'[Len(book')].rec.name = name
                    /\ book'[Len(book')].rec.phones = <<phone>>
                    /\ \A i \in 1..Len(book) : book'[i] = book[i]
                    /\ out' = <<Msg("Contact added.", <<>>)>>
              /\ (Known(book, name) /\ ~Holds(PhonesOf(book, name), phone)) =>
                    /\ Len(book') = Len(book)
                    /\ \A i \in 1..Len(book) :
                          IF book[i].key = name
                          THEN /\ book'[i].key = name
                               /\ book'[i].rec.name = book[i].rec.name
                               /\ book'[i].rec.birthday = book[i].rec.birthday
                               /\ book'[i].rec.phones = book[i].rec.phones \o <<phone>>
                          ELSE book'[i] = book[i]
                    /\ out' = <<Msg("Contact updated.", <<>>)>>]_vars

\* a known contact got a second phone and "Contact updated." was printed
C2_Witness ==
    /\ last.op = "add"
    /\ out = <<Msg("Contact updated.", <<>>)>>
    /\ Len(book) = 2
    /\ PhonesOf(book, last.args[1]) = <<P2, P1>>

\* the next occurrence of the birthday b falls on the day dt: the month and
\* day of b, or the 28th of February of a year that is no leap year for a
\* birthday on the 29th of February
IsOccurrence(b, dt) ==
    \/ dt.month = b.month /\ dt.day = b.day
    \/ /\ b.month = 2 /\ b.day = 29
       /\ ~IsLeap(dt.year) /\ dt.month = 2 /\ dt.day = 28

\* the birthday b occurs within the n days after td, td included
DueWithin(b, td, n) == \E k \in 0..n : IsOccurrence(b, AddDays(td, k))

DueDate(b, td, n) ==
    AddDays(td, CHOOSE k \in 0..n : IsOccurrence(b, AddDays(td, k)))

\* C3: get_upcoming_birthdays returns exactly the contacts with a birthday
\* whose next occurrence is 0 to 7 days after today, each once, in the
\* insertion order of the book.
C3_UpcomingWindow ==
    last.op = "get_upcoming_birthdays" =>
        LET Due(e) == e.rec.birthday # NoBirthday /\ DueWithin(e.rec.birthday, today, 7)
            due    == SelectSeq(book, Due)
        IN  /\ Len(upcoming) = Len(due)
            /\ \A i \in 1..Len(due) : upcoming[i].name = due[i].rec.name

\* of two contacts the first has its birthday 8 days out and is left out, the
\* second has it exactly 7 days out and is the one returned
C3_Witness ==
    /\ last.op = "get_upcoming_birthdays"
    /\ Len(book) = 2
    /\ book[1].rec.birthday = BornOn(AddDays(today, 8))
    /\ book[2].rec.birthday = BornOn(AddDays(today, 7))
    /\ Len(upcoming) = 1
    /\ upcoming[1].name = book[2].rec.name

\* C4: the date emitted for a contact is its birthday's date in the window
\* when that is a Monday to Friday, 2 days later for a Saturday, 1 day later
\* for a Sunday; it is no Saturday or Sunday, not before the birthday's date
\* and at most 9 days after today.
C4_WeekendShift ==
    last.op = "get_upcoming_birthdays" =>
        \A i \in 1..Len(upcoming) :
            \E j \in 1..Len(book) :
                /\ book[j].key = upcoming[i].name
                /\ book[j].rec.birthday # NoBirthday
                /\ DueWithin(book[j].rec.birthday, today, 7)
                /\ LET due     == DueDate(book[j].rec.birthday, today, 7)
                       emitted == Strptime(upcoming[i].date)
                   IN  /\ emitted.ok
                       /\ emitted.value =
                              AddDays(due, CASE Weekday(due) = 5 -> 2
                                             [] Weekday(due) = 6 -> 1
                                             [] OTHER -> 0)
                       /\ Weekday(emitted.value) \in 0..4
                       /\ DaysBetween(emitted.value, due) >= 0
                       /\ DaysBetween(emitted.value, today) \in 0..9

\* a birthday 7 days out on a Saturday is emitted as the Monday 9 days out
C4_Witness ==
    /\ last.op = "get_upcoming_birthdays"
    /\ \E i \in 1..Len(upcoming) :
          DaysBetween(Strptime(upcoming[i].date).value, today) = 9

FebruaryTheLast(y) == IF IsLeap(y) THEN Date(y, 2, 29) ELSE Date(y, 2, 28)

\* the occurrence of the birthday b in the year y
OccurrenceIn(b, y) ==
    IF b.month = 2 /\ b.day = 29 THEN FebruaryTheLast(y) ELSE Date(y, b.month, b.day)

\* C5: the occurrence in today's year of a birthday on the 29th of February
\* is the 29th of February in a leap year and the 28th otherwise; when it is
\* before today the occurrence rolled forward is that of the next year: the
\* 29th when the next year is a leap year, the 28th only when it is not.  Any
\* other birthday keeps its day and month.
C5_LeapDayOccurrence ==
    last.op = "get_upcoming_birthdays" =>
        \A i \in 1..Len(book) :
            book[i].rec.birthday # NoBirthday =>
                LET b     == book[i].rec.birthday
                    first == OccurrenceIn(b, today.year)
                IN  /\ occ[i].first = first
                    /\ occ[i].final =
                          IF ToOrdinal(first) < ToOrdinal(today)
                          THEN OccurrenceIn(b, today.year + 1)
                          ELSE first

\* C6: Phone(value) is built exactly when value is ten ASCII decimal digits;
\* for every other string the constructor raises "Phone number must be a
\* 10-digit number." and builds nothing.
C6_PhoneValidation ==
    last.op = "Phone" =>
        /\ built.ok <=> TenAsciiDigits(value)
        /\ built.ok => built.value = value
        /\ ~built.ok =>
              /\ built.value = <<>>
              /\ out = <<Msg("Phone number must be a 10-digit number.", <<>>)>>

\* C7: after any calls of add_phone, remove_phone and edit_phone, failed or
\* not, no record holds a phone twice and every phone held is ten decimal
\* digits.
C7_PhonesUniqueAndValid ==
    \A i \in 1..Len(book) :
        LET phones == book[i].rec.phones
        IN  /\ \A k, m \in 1..Len(phones) : phones[k] = phones[m] => k = m
            /\ \A k \in 1..Len(phones) : TenAsciiDigits(phones[k])

FailingCommands ==
    {"add", "change", "phone", "add-birthday", "show-birthday", "invalid"}

\* C8: a command that fails prints exactly one message and the loop reads
\* on; the loop is left only by close or exit or by an interrupt during the
\* read, and "Good bye!" is printed when it is left.
C8_SessionEndsWithGoodBye ==
    [][/\ (last'.op \in FailingCommands /\ ~last'.ok) =>
              (Len(out') = 1 /\ running' /\ ~crashed')
       /\ (running /\ ~running') =>
              /\ last'.op \in {"close", "interrupt"}
              /\ out' \in {<<GoodBye>>, <<GoodByeAfterNewline>>}
              /\ ~crashed']_vars

\* C9: an add command that fails leaves the book as it was: its keys and
\* every record's name, phones and birthday.
C9_FailedAddChangesNothing ==
    [][(last'.op = "add" /\ ~last'.ok) => book' = book]_vars

\* add with an unknown name and an invalid phone has failed, and the name is
\* still unknown
C9_Witness ==
    /\ last.op = "add"
    /\ ~last.ok
    /\ Len(last.args) = 2
    /\ ~TenAsciiDigits(last.args[2])
    /\ ~Known(book, last.args[1])
    /\ Len(book) = 1

\* C10: in the command loop every record holds at least one phone (show_all
\* never prints "No phones") and is stored under its own name, and no step
\* removes a key of the book.
C10_RecordsKeepPhonesAndKeys ==
    /\ [](/\ \A i \in 1..Len(book) :
                /\ Len(book[i].rec.phones) >= 1
                /\ book[i].key = book[i].rec.name
          /\ last.op = "all" =>
                \A k \in 1..Len(out[1].args) : out[1].args[k] # NoPhones)
    /\ [][\A i \in 1..Len(book) : Known(book', book[i].key)]_vars

\* a change that failed after it had removed the old phone: the record is
\* left with one phone, and both contacts are still there
C10_Witness ==
    /\ last.op = "change"
    /\ ~last.ok
    /\ last.args = <<Ann, P1, P2>>
    /\ Len(book) = 2
    /\ PhonesOf(book, Ann) = <<P2>>
    /\ out = <<Msg("Phone already exists", <<>>)>>

====
